---- MODULE Spec2Model ----
(***************************************************************************)
(* fn-agent of the career assistant: the chat router (intent classifier,   *)
(* metadata fast path, conversational fast path, ReActAgent loop) and the  *)
(* in-process session store, as a state machine over concurrent requests   *)
(* that interleave at their suspension points (calls to the LLM and the    *)
(* vector store) on the one shared event loop.                             *)
(***************************************************************************)
EXTENDS Integers, Sequences, FiniteSets, TLC

\* ---------------------------------------------------------------- bounds
MaxRequests == 2
MaxIterations == 2
MaxEnds == 1
MaxSentences == 3
MaxSentenceLen == 3
MaxSends == 2
MaxUploads == 2

\* ------------------------------------------------------------ vocabulary
Sessions == {"A", "B"}
FirstSession == "A"
Jobs == {"j1"}
ToolNames == {"fit_score"}
Intents == {"metadata", "tool", "retrieval", "conversational"}
None == "none"
NoAgent == 0
NoHolder == 0
Requests == 1..MaxRequests
AgentIds == 1..MaxRequests

InProgress == {"classifying", "metadata_fastpath", "conversational_fastpath", "reasoning"}
Finished == {"responded", "failed"}

NoResp == [status |-> "pending"]

Epochs == 0..MaxEnds
NoOwner == [sid |-> None, epoch |-> 0]

VARIABLES reqs, sessions, mem, appended, owner, created, nextAgent, lock,
          epoch, solo, ends, teardown, toolrun, doc, ui, upload

\* The state of the chat service, and the state outside it.
chat == <<reqs, sessions, mem, appended, owner, created, nextAgent, lock,
          epoch, solo, ends, teardown>>
aside == <<toolrun, doc, ui, upload>>
vars == <<chat, aside>>

\* A request before it arrives.
IdleReq ==
  [pc |-> "idle", sid |-> None, job |-> None,
   intent |-> None, tool |-> None, cfail |-> FALSE, mfail |-> FALSE,
   convfail |-> FALSE,
   llm |-> 0, iter |-> 0, obs |-> 0, suff |-> FALSE, exhausted |-> FALSE, agent |-> NoAgent, epoch |-> 0,
   eq |-> <<>>, trace |-> <<>>, resp |-> NoResp, shadow |-> NoResp]

ChatInit ==
  /\ reqs = [r \in Requests |-> IdleReq]
  /\ sessions = [s \in Sessions |-> NoAgent]
  /\ mem = [a \in AgentIds |-> <<>>]
  /\ appended = [a \in AgentIds |-> 0]
  /\ owner = [a \in AgentIds |-> NoOwner]
  /\ created = [s \in Sessions |-> 0]
  /\ nextAgent = 1
  /\ lock = [s \in Sessions |-> NoHolder]
  /\ epoch = [s \in Sessions |-> 0]
  /\ solo = [s \in Sessions |-> [e \in Epochs |-> <<>>]]
  /\ ends = 0
  /\ teardown = NoResp

Init ==
  /\ ChatInit
  /\ toolrun = [pc |-> "off"]
  /\ doc = [pc |-> "off"]
  /\ ui = [pc |-> "off"]
  /\ upload = [pc |-> "off"]

\* ------------------------------------------------------- pure operators

Range(f) == {f[i] : i \in DOMAIN f}

\* Variant: a metadata intent is handed to the agent like any other query.
RouteAfterClassifyNoMetadataPath(intent, tool, cfail) ==
  IF cfail THEN "reasoning"
  ELSE IF intent = "conversational" /\ tool = None THEN "conversational_fastpath"
  ELSE "reasoning"

\* Variant: the fallback intent of a failed classification is routed like a
\* classified conversational intent.
RouteAfterClassifyIgnoringFailure(intent, tool, cfail) ==
  IF intent = "metadata" THEN "metadata_fastpath"
  ELSE IF intent = "conversational" /\ tool = None THEN "conversational_fastpath"
  ELSE "reasoning"

\* Router: the state that follows classification.
RouteAfterClassify(intent, tool, cfail) ==
  IF cfail THEN "reasoning"
  ELSE IF intent = "metadata" THEN "metadata_fastpath"
  ELSE IF intent = "conversational" /\ tool = None THEN "conversational_fastpath"
  ELSE "reasoning"

\* Router: the state that follows a failed metadata handler (the flowchart's
\* edge MetaPath -->|handler failed| ConvCheck).
RouteAfterMetadataFailure == "conversational_fastpath"

\* Variant: a failed direct llm.chat() is surfaced as an error.
RouteAfterConvFailureError == "failed"

\* Router: the state that follows a failed direct llm.chat().
RouteAfterConvFailure == "reasoning"

JobHint(job) == [tag |-> "Selected job_id", val |-> job]
ToolHint(tool) == [tag |-> "USE_TOOL", val |-> tool]
RawQuery(r) == [tag |-> "query", val |-> r]

\* Variant: the two hints exclude each other (else-if instead of two ifs).
EffectiveQueryOneHint(r, job, tool) ==
  (IF job /= None THEN <<JobHint(job)>>
   ELSE IF tool /= None THEN <<ToolHint(tool)>> ELSE <<>>)
    \o <<RawQuery(r)>>

\* Build Effective Query: routing hints prepended to the raw query.
EffectiveQuery(r, job, tool) ==
  (IF job /= None THEN <<JobHint(job)>> ELSE <<>>)
    \o (IF tool /= None THEN <<ToolHint(tool)>> ELSE <<>>)
    \o <<RawQuery(r)>>

\* routed_via of a response: the path whose handler produced the answer.
RoutedVia(path) ==
  CASE path = "metadata_fastpath" -> "metadata"
    [] path = "conversational_fastpath" -> "conversational"
    [] OTHER -> "agent"

\* A chat message; at is its position in the order of appends to its buffer.
Message(s, role, r, at) == [sid |-> s, role |-> role, turn |-> r, at |-> at]

\* The memory buffer's token limit.
TokenBudget == 2048
\* Size estimates: a user message is at most MaxMessageLength characters at
\* CharsPerToken characters a token; an answer built on a tool output takes
\* up to AssistantTokens.
MaxMessageLength == 2000
CharsPerToken == 4
UserTokens == MaxMessageLength \div CharsPerToken
AssistantTokens == 800
Tokens(m) == IF m.role = "user" THEN UserTokens ELSE AssistantTokens

RECURSIVE Size(_)
Size(h) == IF h = <<>> THEN 0 ELSE Tokens(Head(h)) + Size(Tail(h))

\* Variant: the buffer keeps everything.
TrimNothing(h) == h

\* The buffer evicts its earliest messages until the rest fits the limit.
RECURSIVE Trim(_)
Trim(h) == IF Size(h) <= TokenBudget THEN h ELSE Trim(Tail(h))

\* Append message m to buffer h.
Put(h, m) == Trim(Append(h, m))

Failure(rq) == [error |-> "ExternalServiceUnavailable", session_id |-> rq.sid]

Ended(s) == [status |-> "ok", session_id |-> s]

\* Variant: tearing down a session the store does not hold is an error.
TeardownStrict(store, s) ==
  IF store[s] = NoAgent
    THEN [store |-> store, resp |-> [error |-> "SessionNotFound", session_id |-> s]]
    ELSE [store |-> [store EXCEPT ![s] = NoAgent], resp |-> Ended(s)]

\* Session store: drop the entry of s when there is one; always ok.
Teardown(store, s) ==
  [store |-> [store EXCEPT ![s] = NoAgent], resp |-> Ended(s)]

Answer(path, r, ctx) == [by |-> path, q |-> r, ctx |-> ctx]

\* Variant: routed_via is derived from the classified intent, not from the
\* path that answered.
ResponseRoutedByIntent(rq, path, r, ctx) ==
  [answer |-> Answer(path, r, ctx), session_id |-> rq.sid,
   intent |-> rq.intent,
   routed_via |-> RoutedVia(RouteAfterClassify(rq.intent, rq.tool, rq.cfail))]

Response(rq, path, r, ctx) ==
  [answer |-> Answer(path, r, ctx), session_id |-> rq.sid,
   intent |-> rq.intent, routed_via |-> RoutedVia(path)]

\* Variant: no lookup, every turn that reaches the loop builds a new agent.
GetOrCreateNoLookup(store, s, fresh) ==
  [store |-> [store EXCEPT ![s] = fresh], agent |-> fresh, isNew |-> TRUE]

\* Variant: one process-wide agent serves every session.
GetOrCreateShared(store, s, fresh) ==
  IF \E t \in Sessions : store[t] /= NoAgent
    THEN LET a == store[CHOOSE t \in Sessions : store[t] /= NoAgent]
         IN [store |-> [store EXCEPT ![s] = a], agent |-> a, isNew |-> FALSE]
    ELSE [store |-> [store EXCEPT ![s] = fresh], agent |-> fresh, isNew |-> TRUE]

\* Session store: get or create the per-session agent.
GetOrCreate(store, s, fresh) ==
  IF store[s] /= NoAgent
    THEN [store |-> store, agent |-> store[s], isNew |-> FALSE]
    ELSE [store |-> [store EXCEPT ![s] = fresh], agent |-> fresh, isNew |-> TRUE]

\* Variant: turns are accepted without looking at the session's lock.
LockFreeAlways(s) == TRUE

\* Variant: one lock for the whole store.
LockFreeGlobal(s) == \A t \in Sessions : lock[t] = NoHolder

\* Session store: may a turn of session s be accepted now?
LockFree(s) == lock[s] = NoHolder

\* Variant: a turn keeps its session's lock when it ends.
ReleaseNever(lk, s) == lk

\* The end of a turn, answered or failed, frees its session's lock.
Release(lk, s) == [lk EXCEPT ![s] = NoHolder]

\* ------------------------------------------------------------- actions

\* Requests are numbered in their order of arrival.
Arrived(r) == IF r \in Requests THEN reqs[r].pc /= "idle" ELSE TRUE

\* A chat request {query, session_id, job_id?} reaches fn-agent.  Session ids
\* are opaque, so the first request is taken to be for FirstSession.
Receive(r, s, j) ==
  /\ reqs[r].pc = "idle"
  /\ Arrived(r - 1)
  /\ r = 1 => s = FirstSession
  /\ reqs' = [reqs EXCEPT ![r].pc = "received", ![r].sid = s, ![r].job = j,
                          ![r].trace = <<"received">>]
  /\ UNCHANGED <<sessions, mem, appended, owner, created, nextAgent, lock, epoch, solo,
                 ends, teardown, aside>>

\* DELETE /session/{session_id}: drop the session if there is one.
EndSession(s) ==
  /\ ends < MaxEnds
  /\ ends' = ends + 1
  /\ teardown' = Teardown(sessions, s).resp
  /\ sessions' = Teardown(sessions, s).store
  /\ created' = [created EXCEPT ![s] = 0]
  /\ epoch' = [epoch EXCEPT ![s] = IF sessions[s] /= NoAgent THEN @ + 1 ELSE @]
  /\ UNCHANGED <<reqs, mem, appended, owner, nextAgent, lock, solo, aside>>

\* The turn is accepted: it takes its session's lock and the classifier is
\* called (first suspension point).
Accept(r) ==
  /\ reqs[r].pc = "received"
  /\ LockFree(reqs[r].sid)
  /\ lock' = [lock EXCEPT ![reqs[r].sid] = r]
  /\ reqs' = [reqs EXCEPT ![r].pc = "classifying",
                          ![r].trace = Append(@, "classifying")]
  /\ UNCHANGED <<sessions, mem, appended, owner, created, nextAgent, epoch, solo, ends, teardown, aside>>

\* Entering the ReActAgent loop with request record rq (already carrying the
\* classification): build the effective query, get or create the session's
\* agent, put the user message into its memory.
EnterReasoning(r, rq) ==
  LET s == rq.sid
      g == GetOrCreate(sessions, s, nextAgent)
      a == g.agent
      m == Message(s, "user", r, appended[a] + 1)
  IN /\ sessions' = g.store
     /\ nextAgent' = IF g.isNew THEN nextAgent + 1 ELSE nextAgent
     /\ owner' = IF g.isNew THEN [owner EXCEPT ![a] = [sid |-> s, epoch |-> epoch[s]]]
                            ELSE owner
     /\ created' = IF g.isNew THEN [created EXCEPT ![s] = @ + 1] ELSE created
     /\ mem' = [mem EXCEPT ![a] = Put(@, m)]
     /\ appended' = [appended EXCEPT ![a] = @ + 1]
     /\ solo' = [solo EXCEPT ![s][epoch[s]] = Put(@, m)]
     /\ reqs' = [reqs EXCEPT ![r] =
                   [rq EXCEPT !.pc = "reasoning",
                              !.trace = Append(@, "reasoning"),
                              !.eq = EffectiveQuery(r, rq.job, rq.tool),
                              !.agent = a, !.epoch = epoch[s]]]
     /\ UNCHANGED <<lock, epoch, ends, teardown, aside>>

\* A fast path is entered: only the request moves.  Entering the
\* conversational fast path issues its one direct llm.chat() call.
EnterFastPath(r, rq, path) ==
  /\ reqs' = [reqs EXCEPT ![r] =
                [rq EXCEPT !.pc = path, !.trace = Append(@, path),
                           !.llm = IF path = "conversational_fastpath" THEN @ + 1 ELSE @]]
  /\ UNCHANGED <<sessions, mem, appended, owner, created, nextAgent, lock, epoch, solo, ends, teardown, aside>>

Dispatch(r, rq, next) ==
  IF next = "reasoning" THEN EnterReasoning(r, rq) ELSE EnterFastPath(r, rq, next)

\* The classifier answers with an intent and an optional tool name.
ClassifyOk(r, i, t) ==
  /\ reqs[r].pc = "classifying"
  /\ Dispatch(r, [reqs[r] EXCEPT !.intent = i, !.tool = t],
              RouteAfterClassify(i, t, FALSE))

\* The classifier call fails (timeout, malformed or unparsable output).
ClassifyFail(r) ==
  /\ reqs[r].pc = "classifying"
  /\ Dispatch(r, [reqs[r] EXCEPT !.intent = "conversational", !.tool = None,
                                 !.cfail = TRUE],
              RouteAfterClassify("conversational", None, TRUE))

\* A response leaves fn-agent and the turn's lock is released.
Respond(r, path, ctx, sctx) ==
  /\ reqs' = [reqs EXCEPT ![r].pc = "responded",
                          ![r].trace = Append(@, "responded"),
                          ![r].resp = Response(reqs[r], path, r, ctx),
                          ![r].shadow = Response(reqs[r], path, r, sctx)]
  /\ lock' = Release(lock, reqs[r].sid)

\* handle_metadata_query(): direct Qdrant scan, no LLM, no ReAct.
MetadataOk(r) ==
  /\ reqs[r].pc = "metadata_fastpath"
  /\ Respond(r, "metadata_fastpath", <<>>, <<>>)
  /\ UNCHANGED <<sessions, mem, appended, owner, created, nextAgent, epoch, solo, ends, teardown, aside>>

MetadataFail(r) ==
  /\ reqs[r].pc = "metadata_fastpath"
  /\ Dispatch(r, [reqs[r] EXCEPT !.mfail = TRUE], RouteAfterMetadataFailure)

\* Direct llm.chat(): system prompt + user query.
ConvOk(r) ==
  /\ reqs[r].pc = "conversational_fastpath"
  /\ Respond(r, "conversational_fastpath", <<>>, <<>>)
  /\ UNCHANGED <<sessions, mem, appended, owner, created, nextAgent, epoch, solo, ends, teardown, aside>>

ConvFail(r) ==
  /\ reqs[r].pc = "conversational_fastpath"
  /\ Dispatch(r, [reqs[r] EXCEPT !.convfail = TRUE], RouteAfterConvFailure)

IterationOutcomes == {"sufficient", "insufficient", "tool_failed"}

\* Variant: the loop never looks at its iteration count.
CanIterateAlways(it) == TRUE

\* The hard iteration cap: may another iteration start after it iterations?
CanIterate(it) == it < MaxIterations

\* Variant: a tool that raises fails the request.
AfterToolPropagate(rq, outcome) ==
  IF outcome = "tool_failed"
    THEN [rq EXCEPT !.iter = @ + 1, !.llm = @ + 1, !.obs = @ + 1,
                    !.pc = "failed", !.trace = Append(@, "failed"),
                    !.resp = Failure(rq)]
    ELSE [rq EXCEPT !.iter = @ + 1, !.llm = @ + 1,
                    !.suff = (outcome = "sufficient")]

\* The request after one iteration: a tool failure is caught and kept as an
\* observation for the next reasoning step (the observations of a run are
\* dropped when the run ends).
AfterTool(rq, outcome) ==
  [rq EXCEPT !.iter = @ + 1, !.llm = @ + 1,
             !.suff = (outcome = "sufficient"),
             !.obs = IF outcome = "tool_failed" THEN @ + 1 ELSE @]

\* One ReAct iteration: reason (LLM call), select a tool, execute it, decide
\* whether the structured result suffices.  A failed tool is an observation.
\* Variant: the loop asks for more whatever the tool returned.
NeedsMoreAlways(rq) == TRUE

\* "Sufficient to answer?": no, the loop needs more information.
NeedsMore(rq) == ~rq.suff

Iterate(r, outcome) ==
  /\ reqs[r].pc = "reasoning"
  /\ NeedsMore(reqs[r])
  /\ CanIterate(reqs[r].iter)
  /\ reqs' = [reqs EXCEPT ![r] = AfterTool(reqs[r], outcome)]
  /\ UNCHANGED <<sessions, mem, appended, owner, created, nextAgent, lock, epoch, solo, ends, teardown, aside>>

\* The loop's answer goes into the agent's memory and out as the response.
Finish(r, partial) ==
  LET rq == reqs[r]
      m == Message(rq.sid, "assistant", r, appended[rq.agent] + 1)
  IN /\ reqs' = [reqs EXCEPT ![r].pc = "responded",
                             ![r].trace = Append(@, "responded"),
                             ![r].llm = IF partial THEN @ ELSE @ + 1,
                             ![r].exhausted = partial,
                             ![r].obs = 0,
                             ![r].resp = Response(rq, "reasoning", r, mem[rq.agent]),
                             ![r].shadow = Response(rq, "reasoning", r, solo[rq.sid][rq.epoch])]
     /\ lock' = Release(lock, rq.sid)
     /\ mem' = [mem EXCEPT ![rq.agent] = Put(@, m)]
     /\ appended' = [appended EXCEPT ![rq.agent] = @ + 1]
     /\ solo' = [solo EXCEPT ![rq.sid][rq.epoch] = Put(@, m)]
     /\ UNCHANGED <<sessions, owner, created, nextAgent, epoch, ends, teardown, aside>>

\* The result suffices: the LLM synthesizes the narrative from the tool output.
Synthesize(r) ==
  /\ reqs[r].pc = "reasoning"
  /\ reqs[r].suff
  /\ Finish(r, FALSE)

\* The iteration cap is reached without a sufficient result: best-effort
\* partial answer.
Exhausted(r) ==
  /\ reqs[r].pc = "reasoning"
  /\ ~reqs[r].suff
  /\ ~CanIterate(reqs[r].iter)
  /\ Finish(r, TRUE)

\* The LLM or the vector store is unreachable during the loop: the request
\* fails with a structured error.
ServiceUnavailable(r) ==
  /\ reqs[r].pc = "reasoning"
  /\ reqs' = [reqs EXCEPT ![r].pc = "failed",
                          ![r].trace = Append(@, "failed"),
                          ![r].obs = 0,
                          ![r].resp = Failure(reqs[r])]
  /\ lock' = Release(lock, reqs[r].sid)
  /\ UNCHANGED <<sessions, mem, appended, owner, created, nextAgent, epoch, solo, ends, teardown, aside>>

\* Everything request r can do once it has arrived.
Step(r) ==
  \/ Accept(r)
  \/ \E i \in Intents, t \in ToolNames \cup {None} : ClassifyOk(r, i, t)
  \/ ClassifyFail(r)
  \/ MetadataOk(r)
  \/ MetadataFail(r)
  \/ ConvOk(r)
  \/ ConvFail(r)
  \/ \E o \in IterationOutcomes : Iterate(r, o)
  \/ Synthesize(r)
  \/ Exhausted(r)
  \/ ServiceUnavailable(r)

Next ==
  \/ \E r \in Requests, s \in Sessions, j \in Jobs \cup {None} : Receive(r, s, j)
  \/ \E s \in Sessions : EndSession(s)
  \/ \E r \in Requests : Step(r)

Spec == Init /\ [][Next]_vars

\* The event loop runs every task that is ready: a request whose next
\* step stays possible takes it.
FairSpec == Spec /\ \A r \in Requests : WF_vars(Step(r))

\* ---------------------------------------------------------------------
\* The tool layer: one execution of a scoring-bearing tool.

\* A text is the set of words it contains; Vocabulary is the part of the
\* words the skill extractor's patterns know.
Vocabulary == {"python", "sql", "docker", "kubernetes"}
Words == Vocabulary \cup {"teamwork"}
Texts == SUBSET Words

ScoringTools == {"fit_score", "skill_gap_analysis", "job_ranking_based_on_fit",
                 "analyze_fit", "interview_preparation_strategy"}
LlmTools == {"job_ranking_based_on_fit", "analyze_fit",
             "interview_preparation_strategy"}
RetrievalTools == LlmTools

ExtractSkills(text) == text \cap Vocabulary

\* A score is the fraction num/den.
ZeroScore == [num |-> 0, den |-> 1]

\* Variant: the fraction of the resume's skills that the job asks for.
FitScoreOverResume(R, J) ==
  [score |-> IF R = {} THEN ZeroScore
             ELSE [num |-> Cardinality(R \cap J), den |-> Cardinality(R)],
   matched |-> R \cap J, missing |-> J \ R, bonus |-> R \ J,
   narrative |-> None]

\* Variant: every resume skill counts as a bonus.
FitScoreBonusAll(R, J) ==
  [score |-> IF J = {} THEN ZeroScore
             ELSE [num |-> Cardinality(R \cap J), den |-> Cardinality(J)],
   matched |-> R \cap J, missing |-> J \ R, bonus |-> R,
   narrative |-> None]

\* fit_scorer: set arithmetic on the resume's skills R and the job's J.
FitScore(R, J) ==
  [score |-> IF J = {} THEN ZeroScore
             ELSE [num |-> Cardinality(R \cap J), den |-> Cardinality(J)],
   matched |-> R \cap J, missing |-> J \ R, bonus |-> R \ J,
   narrative |-> None]

\* What the LLM may write: any text, stating whatever score it likes.
LlmTexts == {[says |-> sc] : sc \in {ZeroScore, [num |-> 1, den |-> 1],
                                     [num |-> 78, den |-> 100]}}

\* Variant: the result reports the score the LLM stated.
WithNarrativeTrusted(result, text) ==
  [result EXCEPT !.narrative = text, !.score = text.says]

\* The LLM's text is attached to the result as its narrative.
WithNarrative(result, text) == [result EXCEPT !.narrative = text]

ToolInit ==
  /\ ChatInit
  /\ doc = [pc |-> "off"]
  /\ ui = [pc |-> "off"]
  /\ upload = [pc |-> "off"]
  /\ \E n \in ScoringTools, resume \in Texts, job \in Texts :
       toolrun = [pc |-> "selected", name |-> n, resume |-> resume, job |-> job,
               R |-> {}, J |-> {}, result |-> FitScore({}, {}),
               retrieved |-> FALSE, llm |-> 0]

ToolExtract ==
  /\ toolrun.pc = "selected"
  /\ toolrun' = [toolrun EXCEPT !.pc = "extracted",
                             !.R = ExtractSkills(toolrun.resume),
                          !.J = ExtractSkills(toolrun.job)]
  /\ UNCHANGED <<chat, doc, ui, upload>>

ToolScore ==
  /\ toolrun.pc = "extracted"
  /\ toolrun' = [toolrun EXCEPT !.pc = "scored", !.result = FitScore(toolrun.R, toolrun.J)]
  /\ UNCHANGED <<chat, doc, ui, upload>>

ToolRetrieve ==
  /\ toolrun.pc \in {"selected", "extracted", "scored"}
  /\ toolrun.name \in RetrievalTools
  /\ ~toolrun.retrieved
  /\ toolrun' = [toolrun EXCEPT !.retrieved = TRUE]
  /\ UNCHANGED <<chat, doc, ui, upload>>

ToolNarrate(text) ==
  /\ toolrun.pc = "scored"
  /\ toolrun.name \in LlmTools
  /\ toolrun.retrieved
  /\ toolrun' = [toolrun EXCEPT !.pc = "narrated", !.llm = @ + 1,
                             !.result = WithNarrative(@, text)]
  /\ UNCHANGED <<chat, doc, ui, upload>>

ToolReturn ==
  /\ \/ toolrun.pc = "scored" /\ toolrun.name \notin LlmTools
     \/ toolrun.pc = "narrated"
  /\ toolrun' = [toolrun EXCEPT !.pc = "done"]
  /\ UNCHANGED <<chat, doc, ui, upload>>

ToolNext ==
  \/ ToolExtract
  \/ ToolScore
  \/ ToolRetrieve
  \/ \E text \in LlmTexts : ToolNarrate(text)
  \/ ToolReturn

ToolSpec == ToolInit /\ [][ToolNext]_vars

\* ---------------------------------------------------------------------
\* The chunker of fn-ingest: one run of chunk(text, target, overlap).
\* Sizes are in estimated tokens.  A text is a sequence of sentences, given
\* by their sizes; its content is the sequence of its tokens, token j of
\* sentence i being <<i, j>> (whitespace between sentences is not content).

SentenceSizes == 1..MaxSentenceLen
Documents == UNION {[1..n -> SentenceSizes] : n \in 0..MaxSentences}
\* The (target, overlap) pairs of a run: the overlap is less than the target.
Windows == {w \in (2..MaxSentenceLen) \X (1..MaxSentenceLen) : w[2] < w[1]}

\* The tokens from..to of sentence i.
SentenceTokens(i, from, to) == [k \in 1..(to - from + 1) |-> <<i, from + k - 1>>]

RECURSIVE Flatten(_)
Flatten(ss) == IF ss = <<>> THEN <<>> ELSE Head(ss) \o Flatten(Tail(ss))

\* The content of a document.
DocText(sentences) ==
  Flatten([i \in 1..Len(sentences) |-> SentenceTokens(i, 1, sentences[i])])

\* A sentence that fits the target window is one piece; a longer one is cut
\* hard into pieces of target size.
RECURSIVE CutSentence(_, _, _, _)
CutSentence(i, from, size, target) ==
  IF size - from + 1 <= target
    THEN <<SentenceTokens(i, from, size)>>
    ELSE <<SentenceTokens(i, from, from + target - 1)>>
           \o CutSentence(i, from + target, size, target)

SplitSentences(sentences, target) ==
  Flatten([i \in 1..Len(sentences) |-> CutSentence(i, 1, sentences[i], target)])

\* The size of a sequence of pieces.
PiecesSize(ps) == Len(Flatten(ps))

\* Variant: the whole chunk is carried over into the next one.
OverlapTailWhole(ps, overlap, room) == ps

\* The pieces carried over from a finished chunk: its longest run of
\* trailing pieces that is within the overlap and leaves room for the piece
\* that starts the next chunk.
RECURSIVE OverlapTail(_, _, _)
OverlapTail(ps, overlap, room) ==
  IF ps = <<>> \/ (PiecesSize(ps) <= overlap /\ PiecesSize(ps) <= room)
    THEN ps
    ELSE OverlapTail(Tail(ps), overlap, room)

ChunkInit ==
  /\ ChatInit
  /\ toolrun = [pc |-> "off"]
  /\ ui = [pc |-> "off"]
  /\ upload = [pc |-> "off"]
  /\ \E sentences \in Documents, w \in Windows :
       doc = [pc |-> "start", sentences |-> sentences,
              target |-> w[1], overlap |-> w[2],
              todo |-> <<>>, cur |-> <<>>, chunks |-> <<>>]

\* Sentence-boundary splitting of the text.
Split ==
  /\ doc.pc = "start"
  /\ doc' = [doc EXCEPT !.pc = "filling",
                        !.todo = SplitSentences(doc.sentences, doc.target)]
  /\ UNCHANGED <<chat, toolrun, ui, upload>>

\* The next piece fits the current chunk.
AppendPiece ==
  /\ doc.pc = "filling"
  /\ doc.todo /= <<>>
  /\ doc.cur = <<>> \/ PiecesSize(doc.cur) + Len(Head(doc.todo)) <= doc.target
  /\ doc' = [doc EXCEPT !.cur = Append(@, Head(doc.todo)), !.todo = Tail(@)]
  /\ UNCHANGED <<chat, toolrun, ui, upload>>

\* The next piece does not fit: the current chunk is emitted and the next
\* one starts with the overlap and the piece.
NextChunk ==
  /\ doc.pc = "filling"
  /\ doc.todo /= <<>>
  /\ doc.cur /= <<>>
  /\ PiecesSize(doc.cur) + Len(Head(doc.todo)) > doc.target
  /\ doc' = [doc EXCEPT
               !.chunks = Append(@, Flatten(doc.cur)),
               !.cur = Append(OverlapTail(doc.cur, doc.overlap,
                                          doc.target - Len(Head(doc.todo))),
                              Head(doc.todo)),
               !.todo = Tail(@)]
  /\ UNCHANGED <<chat, toolrun, ui, upload>>

\* No piece is left: the last chunk is emitted.
LastChunk ==
  /\ doc.pc = "filling"
  /\ doc.todo = <<>>
  /\ doc' = [doc EXCEPT !.pc = "done", !.cur = <<>>,
                        !.chunks = IF doc.cur = <<>> THEN @
                                   ELSE Append(@, Flatten(doc.cur))]
  /\ UNCHANGED <<chat, toolrun, ui, upload>>

ChunkNext == Split \/ AppendPiece \/ NextChunk \/ LastChunk

\* chunk is sequential code that runs to its end.
ChunkSpec == ChunkInit /\ [][ChunkNext]_vars /\ WF_vars(ChunkNext)

\* ---------------------------------------------------------------------
\* The frontend: one App in one browser tab, with its ChatWindow and
\* JobSelector.  ui.st is the React state, ui.view the values of the last
\* render, which event handlers and the DOM see; a discrete event (click,
\* key, change) is handled and rendered in one step, state set after an
\* await is rendered by a later Render.

\* Session ids generateSessionId can return.
SessionIds == {"session-1", "session-2"}
NoRef == "unset"

\* Texts of the input box, as sequences of characters.
InputTexts == {<<>>, <<" ">>, <<"h", "i">>, <<" ", "h", "i", " ">>}

\* String.prototype.trim
RECURSIVE TrimLeft(_)
TrimLeft(t) == IF t /= <<>> /\ Head(t) = " " THEN TrimLeft(Tail(t)) ELSE t
RECURSIVE TrimRight(_)
TrimRight(t) ==
  IF t /= <<>> /\ t[Len(t)] = " " THEN TrimRight(SubSeq(t, 1, Len(t) - 1)) ELSE t
TrimText(t) == TrimRight(TrimLeft(t))

\* Variant: a hook that takes the initial value of every render.
UseRefEveryRender(current, initial) == initial

\* useRef(initial).current: the initial value of the first render only.
UseRef(current, initial) == IF current = NoRef THEN initial ELSE current

\* Variant: handleSend sends whatever the input and the loading flag are.
CanSendAlways(text, loading) == TRUE

\* The guard of handleSend: "if (!text || loading) return".
CanSend(text, loading) == text /= <<>> /\ ~loading

\* What the server may answer to POST /api/chat; fetch rejects with no
\* response at all.  json.valid says whether the body parses as JSON.
HttpResponses ==
  {[net |-> TRUE, ok |-> o, json |-> [valid |-> v, detail |-> d, answer |-> a]] :
     o \in BOOLEAN, v \in BOOLEAN, d \in {None, "detail"}, a \in {None, "answer"}}
NetworkError ==
  [net |-> FALSE, ok |-> FALSE,
   json |-> [valid |-> FALSE, detail |-> None, answer |-> None]]
ChatOutcomes ==
  {h \in HttpResponses :
     /\ ~h.json.valid => h.json.detail = None /\ h.json.answer = None
     /\ h.ok => h.json.detail = None
     /\ ~h.ok => h.json.answer = None} \cup {NetworkError}

Returned(json) == [threw |-> FALSE, answer |-> json.answer, message |-> None]
Threw(msg) == [threw |-> TRUE, answer |-> None, message |-> msg]

\* The body of a chat request: job_id only when a job is selected.
ChatBody(message, jobId, sessionId) ==
  [message |-> message, session_id |-> sessionId, job_id |-> jobId]

\* sendChat (and the uploads) after fetch: throw on a non-ok response with
\* its detail or the fallback text, else return the parsed body.
SendChat(h, fallback) ==
  IF ~h.net THEN Threw("Failed to fetch")
  ELSE IF ~h.json.valid THEN Threw("SyntaxError")
  ELSE IF ~h.ok
    THEN Threw(IF h.json.detail /= None THEN h.json.detail ELSE fallback)
  ELSE Returned(h.json)

\* The message handleSend appends when onSend settles.
Reply(res) ==
  IF res.threw THEN [role |-> "error", content |-> res.message]
  ELSE [role |-> "assistant", content |-> res.answer]

\* Variant: setMessages([...messages, m]) with the messages of the render
\* in which the handler was created.
AppendToSeen(prev, seen, m) == Append(seen, m)

\* setMessages((prev) => [...prev, m])
AppendTo(prev, seen, m) == Append(prev, m)

\* Variant: handleChat without its finally: loading is reset only after a
\* request that succeeded.
LoadingAfterSuccessOnly(res) == res.threw

\* handleChat's "finally { setChatLoading(false) }".
LoadingAfter(res) == FALSE

\* What a render shows and closes over.
ViewOf(st) == st

RemoveAt(q, i) == SubSeq(q, 1, i - 1) \o SubSeq(q, i + 1, Len(q))

UiInit ==
  /\ ChatInit
  /\ toolrun = [pc |-> "off"]
  /\ doc = [pc |-> "off"]
  /\ upload = [pc |-> "off"]
  /\ \E id \in SessionIds :
       LET st == [chatLoading |-> FALSE, input |-> <<>>, messages |-> <<>>,
                  selectedJob |-> None, jobs |-> {}]
       IN ui = [pc |-> "on", ref |-> UseRef(NoRef, id), st |-> st,
                view |-> ViewOf(st), flight |-> <<>>, sends |-> 0,
                sentIds |-> {}, refused |-> FALSE, fetching |-> 1,
                last |-> NetworkError, uploads |-> 0]

\* The textarea's onChange; a disabled textarea takes no input.
TypeInput(t) ==
  /\ ~ui.view.chatLoading
  /\ LET st == [ui.st EXCEPT !.input = t]
     IN ui' = [ui EXCEPT !.st = st, !.view = ViewOf(st)]
  /\ UNCHANGED <<chat, toolrun, doc, upload>>

\* The JobSelector's onChange; there is no select while no job is listed.
SelectJob(j) ==
  /\ ui.view.jobs /= {}
  /\ j \in ui.view.jobs \cup {None}
  /\ LET st == [ui.st EXCEPT !.selectedJob = j]
     IN ui' = [ui EXCEPT !.st = st, !.view = ViewOf(st)]
  /\ UNCHANGED <<chat, toolrun, doc, upload>>

\* handleSend, by the button or the Enter key, up to its await: the guard,
\* then setInput(''), the user message, and handleChat up to its await
\* (setChatLoading(true), sendChat's fetch).
HandleSend ==
  /\ CanSend(TrimText(ui.view.input), ui.view.chatLoading) => ui.sends < MaxSends
  /\ LET text == TrimText(ui.view.input)
         req == [body |-> ChatBody(text, ui.view.selectedJob, ui.ref),
                 seen |-> ui.view.messages]
         st == [ui.st EXCEPT
                  !.input = <<>>,
                  !.messages = AppendTo(@, ui.view.messages,
                                        [role |-> "user", content |-> text]),
                  !.chatLoading = TRUE]
     IN IF CanSend(text, ui.view.chatLoading)
          THEN ui' = [ui EXCEPT !.st = st, !.view = ViewOf(st),
                                !.flight = Append(@, req),
                                !.sends = @ + 1,
                                !.sentIds = @ \cup {req.body.session_id}]
          ELSE ui' = [ui EXCEPT !.refused = @ \/ ui.flight /= <<>>]
  /\ UNCHANGED <<chat, toolrun, doc, upload>>

\* A chat request settles: handleChat's finally, then handleSend's reply.
SettleChat(i, h) ==
  /\ i \in 1..Len(ui.flight)
  /\ ui' = [ui EXCEPT
              !.flight = RemoveAt(@, i),
              !.last = h,
              !.st = [@ EXCEPT
                        !.chatLoading = LoadingAfter(SendChat(h, "Chat failed")),
                        !.messages = AppendTo(@, ui.flight[i].seen,
                                              Reply(SendChat(h, "Chat failed")))]]
  /\ UNCHANGED <<chat, toolrun, doc, upload>>

\* refreshJobs settles: the fetched list replaces jobs; a failure is ignored.
RefreshJobsDone(ok, data) ==
  /\ ui.fetching > 0
  /\ ui' = [ui EXCEPT !.fetching = @ - 1,
                      !.st = IF ok THEN [@ EXCEPT !.jobs = data] ELSE @]
  /\ UNCHANGED <<chat, toolrun, doc, upload>>

\* handleUploadJob after a job upload that succeeded: refreshJobs starts.
\* An upload that failed throws past it and leaves App as it was.
HandleUploadJob ==
  /\ ui.uploads < MaxUploads
  /\ ui' = [ui EXCEPT !.uploads = @ + 1, !.fetching = @ + 1]
  /\ UNCHANGED <<chat, toolrun, doc, upload>>

\* React renders App again: generateSessionId() is evaluated anew and
\* handed to useRef.
Render(id) ==
  /\ ui.view /= ViewOf(ui.st)
  /\ ui' = [ui EXCEPT !.ref = UseRef(@, id), !.view = ViewOf(ui.st)]
  /\ UNCHANGED <<chat, toolrun, doc, upload>>

UiSettle == \E i \in 1..MaxSends, h \in ChatOutcomes : SettleChat(i, h)
UiRender == \E id \in SessionIds : Render(id)

UiNext ==
  \/ \E t \in InputTexts : TypeInput(t)
  \/ \E j \in Jobs \cup {None} : SelectJob(j)
  \/ HandleSend
  \/ UiSettle
  \/ \E ok \in BOOLEAN, data \in SUBSET Jobs : RefreshJobsDone(ok, data)
  \/ HandleUploadJob
  \/ UiRender

\* A response or a network error ends every fetch, and React renders the
\* state it was given.
UiSpec == UiInit /\ [][UiNext]_vars /\ WF_vars(UiSettle) /\ WF_vars(UiRender)

\* ---------------------------------------------------------------------
\* The two FileUpload components of App: "resume" uploads with
\* uploadResume, "job" with handleUploadJob (uploadJob, then refreshJobs).
Uploaders == {"resume", "job"}
Files == {"cv.pdf"}
NoFile == "no-file"
NoUpload == [stage |-> "none"]
\* status null: nothing is shown.
NoStatus == [ok |-> FALSE, msg |-> <<>>]
NoOutcome == [threw |-> FALSE, result |-> None, message |-> "none"]

\* What the upload's fetch can end with: a network error, or a response
\* whose body is the stored document, an error detail, or not JSON.
UploadOutcomes ==
  {[net |-> TRUE, ok |-> TRUE,
    json |-> [valid |-> TRUE, detail |-> None, filename |-> f, chunks |-> "3"]] :
     f \in {None, "stored.pdf"}}
  \cup {[net |-> TRUE, ok |-> FALSE,
         json |-> [valid |-> TRUE, detail |-> d, filename |-> None, chunks |-> None]] :
          d \in {None, "detail"}}
  \cup {[net |-> TRUE, ok |-> o,
         json |-> [valid |-> FALSE, detail |-> None, filename |-> None,
                   chunks |-> None]] : o \in BOOLEAN}
  \cup {[net |-> FALSE, ok |-> FALSE,
         json |-> [valid |-> FALSE, detail |-> None, filename |-> None,
                   chunks |-> None]]}

\* uploadResume and uploadJob: a non-ok response throws its detail, or
\* 'Upload failed'; an ok one returns the parsed body.
UploadFile(h) ==
  IF ~h.net THEN [threw |-> TRUE, result |-> None, message |-> "Failed to fetch"]
  ELSE IF ~h.json.valid
    THEN [threw |-> TRUE, result |-> None, message |-> "SyntaxError"]
  ELSE IF ~h.ok
    THEN [threw |-> TRUE, result |-> None,
          message |-> IF h.json.detail /= None THEN h.json.detail
                      ELSE "Upload failed"]
  ELSE [threw |-> FALSE, result |-> h.json, message |-> None]

\* The status handleChange sets in its try or its catch.
StatusOf(res, file) ==
  IF res.threw THEN [ok |-> FALSE, msg |-> <<res.message>>]
  ELSE [ok |-> TRUE,
        msg |-> <<"Uploaded",
                  IF res.result.filename /= None THEN res.result.filename
                  ELSE file,
                  res.result.chunks>>]

\* Variant: handleChange whose cleanup runs only after a successful upload.
SettledOnSuccessOnly(box, res) ==
  [box EXCEPT !.status = StatusOf(res, box.flight.file),
              !.loading = res.threw,
              !.value = IF res.threw THEN @ ELSE NoFile,
              !.flight = NoUpload,
              !.outcome = res,
              !.done = @ + 1]

\* handleChange after its await: the status, then the finally (loading
\* reset, file input cleared).
Settled(box, res) ==
  [box EXCEPT !.status = StatusOf(res, box.flight.file),
              !.loading = FALSE,
              !.value = NoFile,
              !.flight = NoUpload,
              !.outcome = res,
              !.done = @ + 1]

Shown(box) == [loading |-> box.loading, status |-> box.status]

UploadInit ==
  /\ ChatInit
  /\ toolrun = [pc |-> "off"]
  /\ doc = [pc |-> "off"]
  /\ ui = [pc |-> "off"]
  /\ LET box == [loading |-> FALSE, status |-> NoStatus, value |-> NoFile,
                 flight |-> NoUpload, outcome |-> NoOutcome, done |-> 0,
                 shown |-> [loading |-> FALSE, status |-> NoStatus]]
     IN upload = [pc |-> "on", box |-> [u \in Uploaders |-> box], started |-> 0]

\* The file input's onChange, up to the await; a disabled input takes no
\* file.  With no file chosen the handler returns at once.
HandleChange(u, file) ==
  /\ ~upload.box[u].shown.loading
  /\ file /= NoFile => upload.started < MaxUploads
  /\ LET box == upload.box[u]
         started == [box EXCEPT !.loading = TRUE,
                                !.status = NoStatus,
                                !.value = file,
                                !.flight = [stage |-> "upload", file |-> file],
                                !.shown = [loading |-> TRUE, status |-> NoStatus]]
     IN IF file = NoFile
          THEN upload' = [upload EXCEPT !.box[u].value = NoFile]
          ELSE upload' = [upload EXCEPT !.box[u] = started,
                                        !.started = @ + 1]
  /\ UNCHANGED <<chat, toolrun, doc, ui>>

\* The upload's fetch settles.  A job upload that succeeded goes on to
\* refreshJobs before onUpload resolves.
SettleUpload(u, h) ==
  /\ upload.box[u].flight.stage = "upload"
  /\ LET box == upload.box[u]
         res == UploadFile(h)
     IN IF u = "job" /\ ~res.threw
          THEN upload' = [upload EXCEPT
                            !.box[u].flight = [stage |-> "refresh",
                                               file |-> box.flight.file,
                                               res |-> res]]
          ELSE upload' = [upload EXCEPT !.box[u] = Settled(box, res)]
  /\ UNCHANGED <<chat, toolrun, doc, ui>>

\* refreshJobs settles; it swallows its own failure, so handleUploadJob
\* returns the upload's result either way.
RefreshedAfterUpload(ok) ==
  /\ upload.box["job"].flight.stage = "refresh"
  /\ upload' = [upload EXCEPT
                  !.box["job"] = Settled(@, upload.box["job"].flight.res)]
  /\ UNCHANGED <<chat, toolrun, doc, ui>>

\* React renders the FileUpload again.
RenderUpload(u) ==
  /\ upload.box[u].shown /= Shown(upload.box[u])
  /\ upload' = [upload EXCEPT !.box[u].shown = Shown(upload.box[u])]
  /\ UNCHANGED <<chat, toolrun, doc, ui>>

UploadSettle ==
  \/ \E u \in Uploaders, h \in UploadOutcomes : SettleUpload(u, h)
  \/ \E ok \in BOOLEAN : RefreshedAfterUpload(ok)
UploadRender == \E u \in Uploaders : RenderUpload(u)

UploadNext ==
  \/ \E u \in Uploaders, file \in Files \cup {NoFile} : HandleChange(u, file)
  \/ UploadSettle
  \/ UploadRender

UploadSpec ==
  UploadInit /\ [][UploadNext]_vars /\ WF_vars(UploadSettle) /\ WF_vars(UploadRender)

\* ---------------------------------------------------------- properties

Visited(r, st) == st \in Range(reqs[r].trace)
Routed(r) == Len(reqs[r].trace) >= 3
ResponseFields == {"answer", "session_id", "intent", "routed_via"}
\* The router state the request was in when its outcome was produced.
AnsweredIn(r) == reqs[r].trace[Len(reqs[r].trace) - 1]

\* C1: a request labelled metadata whose metadata lookup succeeds goes
\* received -> classifying -> metadata_fastpath -> responded; from the end of
\* classification on it makes no LLM call and never enters the Reasoning Loop.
C1_MetadataFastPath ==
  \A r \in Requests :
    (reqs[r].intent = "metadata" /\ ~reqs[r].cfail /\ ~reqs[r].mfail) =>
      /\ reqs[r].llm = 0
      /\ ~Visited(r, "reasoning")
      /\ ~Visited(r, "conversational_fastpath")
      /\ reqs[r].agent = NoAgent
      /\ reqs[r].pc \in {"metadata_fastpath", "responded"}
      /\ reqs[r].pc = "responded" =>
            reqs[r].trace = <<"received", "classifying", "metadata_fastpath", "responded">>

C1_Witness ==
  \E r \in Requests :
    /\ reqs[r].pc = "responded"
    /\ reqs[r].intent = "metadata"
    /\ ~reqs[r].mfail
    /\ reqs[r].resp.routed_via = "metadata"

\* C2: when the metadata fast path fails internally the router's next state
\* is reasoning: no error, no other path, and the request ends in responded.
C2_MetadataFailureToReasoning ==
  \A r \in Requests :
    reqs[r].mfail =>
      /\ reqs[r].trace[4] = "reasoning"
      /\ ~Visited(r, "conversational_fastpath")

\* C3: a failed classification gives the request intent conversational and
\* routes it straight into the Reasoning Loop, never through a fast path and
\* never to an error; its response is a well-formed four-field payload.
C3_ClassificationFallback ==
  \A r \in Requests :
    reqs[r].cfail =>
      /\ reqs[r].intent = "conversational"
      /\ reqs[r].trace[3] = "reasoning"
      /\ ~Visited(r, "conversational_fastpath")
      /\ ~Visited(r, "metadata_fastpath")
      /\ reqs[r].pc = "responded" =>
            /\ DOMAIN reqs[r].resp = ResponseFields
            /\ reqs[r].resp.intent = "conversational"
            /\ reqs[r].resp.routed_via = "agent"
            /\ reqs[r].resp.session_id = reqs[r].sid

C3_Witness ==
  \E r \in Requests :
    /\ reqs[r].cfail
    /\ reqs[r].pc = "responded"
    /\ reqs[r].iter > 0

\* C4: a request classified conversational without a tool hint is served by
\* the conversational fast path with exactly one direct LLM call and no entry
\* into the Reasoning Loop when the call succeeds; when the call fails the
\* next state is reasoning, not an error.
C4_ConversationalFastPath ==
  \A r \in Requests :
    (reqs[r].intent = "conversational" /\ reqs[r].tool = None /\ ~reqs[r].cfail) =>
      /\ reqs[r].trace[3] = "conversational_fastpath"
      /\ reqs[r].pc = "conversational_fastpath" => reqs[r].llm = 1
      /\ (reqs[r].pc = "responded" /\ ~reqs[r].convfail) =>
            /\ reqs[r].llm = 1
            /\ ~Visited(r, "reasoning")
            /\ reqs[r].agent = NoAgent
            /\ reqs[r].resp.routed_via = "conversational"
      /\ reqs[r].convfail =>
            /\ reqs[r].trace[4] = "reasoning"
            /\ reqs[r].pc = "failed" => reqs[r].trace[5] = "failed"

C4_Witness ==
  /\ \E r \in Requests :
       /\ reqs[r].intent = "conversational" /\ reqs[r].tool = None /\ ~reqs[r].cfail
       /\ reqs[r].pc = "responded" /\ ~reqs[r].convfail
  /\ \E r \in Requests :
       /\ reqs[r].intent = "conversational" /\ reqs[r].tool = None /\ ~reqs[r].cfail
       /\ reqs[r].convfail /\ reqs[r].pc = "responded"

\* C5: a request classified tool or retrieval takes no fast path: it enters
\* reasoning with an effective query that is the raw query preceded by the
\* selected-job annotation exactly when a job_id was given and by the
\* suggested-tool annotation exactly when the classifier named a tool.
C5_EffectiveQuery ==
  \A r \in Requests :
    reqs[r].intent \in {"tool", "retrieval"} =>
      LET q == reqs[r].eq
          hints == {q[i] : i \in 1..(Len(q) - 1)}
      IN /\ reqs[r].trace[3] = "reasoning"
         /\ ~Visited(r, "metadata_fastpath")
         /\ ~Visited(r, "conversational_fastpath")
         /\ Len(q) >= 1
         /\ q[Len(q)] = RawQuery(r)
         /\ Len(q) = 1 + Cardinality(hints)
         /\ (\E h \in hints : h.tag = "Selected job_id") <=> reqs[r].job /= None
         /\ (\E h \in hints : h.tag = "USE_TOOL") <=> reqs[r].tool /= None
         /\ \A h \in hints :
              \/ h.tag = "Selected job_id" /\ h.val = reqs[r].job
              \/ h.tag = "USE_TOOL" /\ h.val = reqs[r].tool

C5_Witness ==
  \E r \in Requests :
    /\ reqs[r].intent = "tool"
    /\ reqs[r].job /= None
    /\ reqs[r].tool /= None
    /\ Len(reqs[r].eq) = 3
    /\ reqs[r].pc = "responded"

\* C6: every response of chat carries answer, session_id, intent and
\* routed_via; session_id is the request's, and routed_via names the path that
\* produced the answer, also after a fallback from a failed fast path or a
\* failed classification.
C6_ResponseShape ==
  \A r \in Requests :
    reqs[r].pc = "responded" =>
      /\ DOMAIN reqs[r].resp = ResponseFields
      /\ reqs[r].resp.session_id = reqs[r].sid
      /\ reqs[r].resp.intent \in Intents
      /\ reqs[r].resp.answer.by = AnsweredIn(r)
      /\ AnsweredIn(r) = "metadata_fastpath" => reqs[r].resp.routed_via = "metadata"
      /\ AnsweredIn(r) = "conversational_fastpath" =>
            reqs[r].resp.routed_via = "conversational"
      /\ AnsweredIn(r) = "reasoning" => reqs[r].resp.routed_via = "agent"
      /\ AnsweredIn(r) \in {"metadata_fastpath", "conversational_fastpath", "reasoning"}

C6_Witness ==
  \E r \in Requests :
    /\ reqs[r].pc = "responded"
    /\ reqs[r].mfail \/ reqs[r].convfail
    /\ reqs[r].resp.routed_via /= "metadata"

\* The agents built for session s in its current lifetime.
AgentsOf(s) == {a \in AgentIds : owner[a] = [sid |-> s, epoch |-> epoch[s]]}

\* C7: lookup-or-create is atomic: whatever the interleaving of the requests
\* of one session_id, that session has at most one Session entry and at most
\* one reasoning-loop instance, and no instance is held by two sessions.
C7_OneAgentPerSession ==
  /\ \A s \in Sessions :
       /\ created[s] <= 1
       /\ Cardinality(AgentsOf(s)) <= 1
       /\ sessions[s] /= NoAgent =>
             /\ owner[sessions[s]].sid = s
             /\ AgentsOf(s) = {sessions[s]}
  /\ \A s, t \in Sessions :
       (s /= t /\ sessions[s] /= NoAgent) => sessions[s] /= sessions[t]
  /\ \A r \in Requests :
       reqs[r].agent /= NoAgent => owner[reqs[r].agent].sid = reqs[r].sid
  /\ \A r1, r2 \in Requests :
       (/\ reqs[r1].agent /= NoAgent /\ reqs[r2].agent /= NoAgent
        /\ reqs[r1].sid = reqs[r2].sid /\ reqs[r1].epoch = reqs[r2].epoch)
         => reqs[r1].agent = reqs[r2].agent

C7_Witness ==
  \E r1, r2 \in Requests :
    /\ r1 /= r2
    /\ reqs[r1].sid = reqs[r2].sid
    /\ reqs[r1].agent /= NoAgent
    /\ reqs[r1].agent = reqs[r2].agent
    /\ reqs[r2].pc = "reasoning"

\* C8: session isolation: the history of a session holds only messages sent
\* under its own session_id, and every answer given to a session is the answer
\* it gets when the turns of the other sessions are left out.
C8_SessionIsolation ==
  /\ \A a \in AgentIds : \A i \in DOMAIN mem[a] : mem[a][i].sid = owner[a].sid
  /\ \A s \in Sessions :
       sessions[s] /= NoAgent => mem[sessions[s]] = solo[s][epoch[s]]
  /\ \A r \in Requests :
       reqs[r].pc = "responded" =>
         /\ reqs[r].resp = reqs[r].shadow
         /\ \A i \in DOMAIN reqs[r].resp.answer.ctx :
              reqs[r].resp.answer.ctx[i].sid = reqs[r].sid

C8_Witness ==
  \E r1, r2 \in Requests :
    /\ reqs[r1].sid /= reqs[r2].sid
    /\ reqs[r1].pc = "responded" /\ reqs[r1].resp.routed_via = "agent"
    /\ reqs[r2].pc = "responded" /\ reqs[r2].resp.routed_via = "agent"
    /\ Len(reqs[r2].resp.answer.ctx) >= 1
    /\ sessions[reqs[r1].sid] /= NoAgent
    /\ sessions[reqs[r2].sid] /= NoAgent

\* C9: turns of one session are serialized: no two chat turns with the same
\* session_id are in progress together; a second turn of the session waits
\* until the first has completed or failed.
C9_TurnsSerialized ==
  /\ \A r1, r2 \in Requests :
       (r1 /= r2 /\ reqs[r1].pc \in InProgress /\ reqs[r2].pc \in InProgress)
         => reqs[r1].sid /= reqs[r2].sid
  /\ \A r \in Requests :
       reqs[r].pc \in InProgress <=> (\E s \in Sessions : s = reqs[r].sid /\ lock[s] = r)

C9_Witness ==
  \E r1, r2 \in Requests :
    /\ r1 /= r2
    /\ reqs[r1].sid = reqs[r2].sid
    /\ reqs[r1].pc \in InProgress
    /\ reqs[r2].pc = "received"

\* C10: turns of different sessions never wait on each other: a received turn
\* whose own session has no turn in progress can always be accepted, and a
\* turn in progress can always take its next step, whatever the turns of the
\* other sessions are suspended at or hold.
C10_NoCrossSessionWaiting ==
  \A r \in Requests :
    /\ (/\ reqs[r].pc = "received"
        /\ \A o \in Requests :
             (o /= r /\ reqs[o].pc \in InProgress) => reqs[o].sid /= reqs[r].sid)
         => ENABLED Accept(r)
    /\ reqs[r].pc \in InProgress => ENABLED Step(r)

C10_Witness ==
  \E r1, r2 \in Requests :
    /\ reqs[r1].sid /= reqs[r2].sid
    /\ reqs[r1].pc = "reasoning"
    /\ lock[reqs[r1].sid] = r1
    /\ reqs[r2].pc \in InProgress
    /\ r2 > r1

C12_LoopBounded ==
  \A r \in Requests :
    /\ reqs[r].iter <= MaxIterations
    /\ (reqs[r].pc = "reasoning" /\ ~reqs[r].suff
           /\ reqs[r].iter = MaxIterations) =>
         /\ ~ENABLED (\E o \in IterationOutcomes : Iterate(r, o))
         /\ ENABLED Exhausted(r)
    /\ reqs[r].exhausted =>
         /\ reqs[r].pc = "responded"
         /\ reqs[r].iter = MaxIterations
         /\ DOMAIN reqs[r].resp = ResponseFields
         /\ reqs[r].resp.routed_via = RoutedVia("reasoning")

\* A run that used every allowed iteration ended with a partial answer.
C12_Witness ==
  \E r \in Requests :
    /\ reqs[r].exhausted
    /\ reqs[r].pc = "responded"
    /\ reqs[r].iter = MaxIterations

\* ---------------------------------------------------------------------
\* C13: a failing tool never fails the request.  The step in which a tool
\* fails records one observation, leaves the request in reasoning and
\* produces no response; afterwards the loop can take its next iteration
\* when one remains, and otherwise ends as exhausted with an answer that
\* is not a failure.
C13_ToolFailureIsObservation ==
  /\ [][\A r \in Requests :
          reqs'[r].obs > reqs[r].obs =>
            /\ reqs'[r].obs = reqs[r].obs + 1
            /\ reqs'[r].iter = reqs[r].iter + 1
            /\ reqs'[r].pc = "reasoning"
            /\ ~reqs'[r].suff
            /\ reqs'[r].resp = NoResp
            /\ reqs'[r].trace = reqs[r].trace]_vars
  /\ [](\A r \in Requests :
          /\ (reqs[r].pc = "reasoning" /\ reqs[r].obs > 0 /\ ~reqs[r].suff) =>
               IF reqs[r].iter < MaxIterations
                 THEN \A o \in IterationOutcomes : ENABLED Iterate(r, o)
                 ELSE ENABLED Exhausted(r)
          /\ reqs[r].exhausted =>
               /\ reqs[r].pc = "responded"
               /\ "error" \notin DOMAIN reqs[r].resp
               /\ "answer" \in DOMAIN reqs[r].resp)

\* Every allowed iteration of a run failed its tool: the failure of the
\* last one is recorded and the run is still in reasoning.
C13_Witness ==
  \E r \in Requests :
    /\ reqs[r].pc = "reasoning"
    /\ reqs[r].obs = reqs[r].iter
    /\ reqs[r].iter = MaxIterations

\* ---------------------------------------------------------------------
\* C14: every chat request eventually ends.  A request that was received
\* reaches responded or failed, whatever the outcome of each external
\* call and however the other requests and teardowns interleave.
C14_EveryRequestEnds ==
  \A r \in Requests :
    []<>(reqs[r].pc = "idle" \/ reqs[r].pc \in Finished)

\* A turn ended with a classified failure, and a later turn of the same
\* session got the lock after it and ended too.
C14_Witness ==
  \E r, q \in Requests :
    /\ r /= q
    /\ reqs[r].sid = reqs[q].sid
    /\ reqs[q].pc = "failed"
    /\ reqs[r].pc \in Finished
    /\ Len(mem[reqs[q].agent]) >= 2
    /\ mem[reqs[q].agent][1].turn = q


\* ---------------------------------------------------------------------
\* The classifier gave the tool hint fit_score, the request names a job, and
\* the request went to the reasoning loop.
Hinted(r) ==
  /\ reqs[r].tool = "fit_score"
  /\ reqs[r].job /= None
  /\ Visited(r, "reasoning")

OverlapLen(a, b) ==
  LET m == IF Len(a) < Len(b) THEN Len(a) ELSE Len(b)
      Fits(n) == SubSeq(a, Len(a) - n + 1, Len(a)) = SubSeq(b, 1, n)
  IN CHOOSE n \in 0..m : Fits(n) /\ \A k \in (n + 1)..m : ~Fits(k)

\* The chunk texts concatenated, each without its overlap with the one before.
RECURSIVE Reconstruct(_)
Reconstruct(cs) ==
  IF cs = <<>> THEN <<>>
  ELSE IF Len(cs) = 1 THEN cs[1]
  ELSE LET n == Len(cs)
       IN Reconstruct(SubSeq(cs, 1, n - 1))
            \o SubSeq(cs[n], OverlapLen(cs[n - 1], cs[n]) + 1, Len(cs[n]))

\* What C19 says apart from the size of the overlaps: a finished run has
\* produced finitely many non-empty chunks that reconstruct the document,
\* and none for an empty document.
FiniteAndLossless ==
  /\ Len(doc.chunks) <= Len(DocText(doc.sentences))
  /\ \A k \in 1..Len(doc.chunks) : doc.chunks[k] /= <<>>
  /\ Reconstruct(doc.chunks) = DocText(doc.sentences)
  /\ doc.sentences = <<>> => doc.chunks = <<>>

C20_HistoryBounded ==
  \A a \in AgentIds :
    /\ Size(mem[a]) <= TokenBudget
    /\ Len(mem[a]) <= appended[a]
    /\ \A i \in 1..Len(mem[a]) :
         /\ mem[a][i].role \in {"user", "assistant"}
         /\ mem[a][i].at = appended[a] - Len(mem[a]) + i

\* A buffer received more messages than it holds: early ones were evicted.
C20_Witness ==
  \E a \in AgentIds :
    /\ mem[a] /= <<>>
    /\ appended[a] > Len(mem[a])

\* ---------------------------------------------------------------------
\* Properties of the tool layer.

\* The scorer has run in this tool execution.
Scored == toolrun.pc \in {"scored", "narrated", "done"}

\* ---------------------------------------------------------------------
\* C15: the score is |R \cap J| / |J| and lies in [0,1].  For every
\* extracted R and J the scored fraction has a positive denominator (no
\* division failure), equals |R \cap J| / |J| when J is not empty, is
\* between 0 and 1, and is 0 with empty matched and missing when J is
\* empty; for R = {python, sql, docker}, J = {python, kubernetes, sql} it
\* is 2/3.
C15_ScoreFormula ==
  Scored =>
    LET R == toolrun.R
        J == toolrun.J
        sc == toolrun.result.score
    IN /\ sc.den > 0
       /\ 0 <= sc.num /\ sc.num <= sc.den
       /\ J /= {} => sc.num * Cardinality(J) = Cardinality(R \cap J) * sc.den
       /\ J = {} => /\ sc.num = 0
                    /\ toolrun.result.matched = {}
                    /\ toolrun.result.missing = {}
       /\ (R = {"python", "sql", "docker"} /\ J = {"python", "kubernetes", "sql"})
            => sc.num * 3 = 2 * sc.den

\* The scenario's skill sets were scored.
C15_Witness ==
  /\ Scored
  /\ toolrun.R = {"python", "sql", "docker"}
  /\ toolrun.J = {"python", "kubernetes", "sql"}
  /\ toolrun.result.score = [num |-> 2, den |-> 3]

\* ---------------------------------------------------------------------
\* C16: the breakdown sets.  matched and missing partition J, bonus is
\* R without matched, and bonus shares nothing with J.
C16_Breakdown ==
  Scored =>
    LET R == toolrun.R
        J == toolrun.J
        res == toolrun.result
    IN /\ res.matched \cup res.missing = J
       /\ res.matched \cap res.missing = {}
       /\ res.bonus = R \ res.matched
       /\ res.bonus \cap J = {}

\* A scored pair of skill sets with something matched, missing and bonus.
C16_Witness ==
  /\ Scored
  /\ toolrun.result.matched /= {}
  /\ toolrun.result.missing /= {}
  /\ toolrun.result.bonus /= {}

\* ---------------------------------------------------------------------
\* C17: scoring comes before any LLM call and the LLM cannot change it.
\* An LLM call of a tool execution happens only after the extractor and the
\* scorer ran, it leaves the score and the skill sets of the result as they
\* were, and whenever the tool has made an LLM call its result carries
\* exactly what the scorer computes from the extracted skills.
C17_ScoreBeforeLlm ==
  /\ [][toolrun'.llm > toolrun.llm =>
          /\ toolrun.pc = "scored"
          /\ toolrun.R = ExtractSkills(toolrun.resume)
          /\ toolrun.J = ExtractSkills(toolrun.job)
          /\ toolrun'.result.score = toolrun.result.score
          /\ toolrun'.result.matched = toolrun.result.matched
          /\ toolrun'.result.missing = toolrun.result.missing
          /\ toolrun'.result.bonus = toolrun.result.bonus]_vars
  /\ [](toolrun.llm > 0 =>
          /\ Scored
          /\ [toolrun.result EXCEPT !.narrative = None]
               = FitScore(ExtractSkills(toolrun.resume),
                          ExtractSkills(toolrun.job)))

\* A tool returned a result whose narrative states another score than the
\* result's own.
C17_Witness ==
  /\ toolrun.pc = "done"
  /\ toolrun.llm > 0
  /\ toolrun.result.narrative.says /= toolrun.result.score

\* ---------------------------------------------------------------------
\* C21 as stated: every turn mutates its session, whichever path served it.
\* While no session has been torn down, a request that was answered has
\* its session in the store and was served with that session's agent, so
\* that its turn is prior context for the next one.
C21_EveryTurnMutatesSession ==
  \A r \in Requests :
    (reqs[r].pc = "responded" /\ ends = 0) =>
      /\ sessions[reqs[r].sid] /= NoAgent
      /\ reqs[r].agent = sessions[reqs[r].sid]
      /\ appended[reqs[r].agent] >= 2

\* ---------------------------------------------------------------------
\* Properties of the frontend.

\* C22: the session id of an App is stable.  The ref never changes, in any
\* step (send, job selection, refresh, render), and every chat request the
\* App has issued or has in flight carries it.
C22_SessionIdStable ==
  /\ [][ui'.ref = ui.ref]_vars
  /\ [](/\ ui.ref \in SessionIds
        /\ ui.sentIds \subseteq {ui.ref}
        /\ \A i \in 1..Len(ui.flight) : ui.flight[i].body.session_id = ui.ref)

\* Two chat requests were sent, a job was selected, and settled replies
\* were rendered in between.
C22_Witness ==
  /\ ui.sends = MaxSends
  /\ ui.sentIds /= {}
  /\ ui.st.selectedJob /= None
  /\ Len(ui.view.messages) >= 3

\* ---------------------------------------------------------------------
\* C23: at most one chat request is in flight.  While the rendered
\* loading flag is true or the trimmed input is empty, no step issues a
\* request or appends a user message; so there is never more than one
\* request in flight.
C23_OneRequestInFlight ==
  /\ [][(ui.view.chatLoading \/ TrimText(ui.view.input) = <<>>) =>
          /\ ui'.sends = ui.sends
          /\ Len(ui'.flight) <= Len(ui.flight)
          /\ \/ ui'.st.messages = ui.st.messages
             \/ Len(ui'.flight) < Len(ui.flight)]_vars
  /\ [](Len(ui.flight) <= 1)

\* A send was made and refused while a request was, and still is, in flight.
C23_Witness ==
  /\ ui.refused
  /\ ui.flight /= <<>>
  /\ ui.st.chatLoading

\* ---------------------------------------------------------------------
\* C24: chatLoading is true exactly while a request is in flight.  It is
\* set with the request and reset when the request settles, whether it
\* succeeded or failed; the rendered flag, which disables the input, always
\* becomes false again.
C24_LoadingWhileInFlight ==
  /\ [](ui.st.chatLoading <=> ui.flight /= <<>>)
  /\ [][Len(ui'.flight) < Len(ui.flight) => ~ui'.st.chatLoading]_vars
  /\ [][Len(ui'.flight) > Len(ui.flight) => ui'.st.chatLoading]_vars
  /\ (ui.view.chatLoading ~> ~ui.view.chatLoading)

\* A failed request has settled and the input is enabled again.
C24_Witness ==
  /\ ui.sends >= 1
  /\ ui.flight = <<>>
  /\ ui.st.messages /= <<>>
  /\ ui.st.messages[Len(ui.st.messages)].role = "error"
  /\ ~ui.st.chatLoading
  /\ ~ui.view.chatLoading

\* ---------------------------------------------------------------------
\* C25: the message list is append-only and paired.  No step removes or
\* reorders a message; the list is user message, reply, user message, ...
\* with one user message a send and one reply a settled request; the reply
\* to the request that settled last is an assistant message holding the
\* answer of an ok response, and an error message holding the error text
\* otherwise, always so for a non-ok response.
C25_MessagesAppendOnly ==
  /\ [][/\ Len(ui'.st.messages) >= Len(ui.st.messages)
        /\ SubSeq(ui'.st.messages, 1, Len(ui.st.messages)) = ui.st.messages]_vars
  /\ [](LET ms == ui.st.messages
        IN /\ Len(ms) = 2 * ui.sends - Len(ui.flight)
           /\ \A i \in 1..Len(ms) :
                IF i % 2 = 1 THEN ms[i].role = "user" /\ ms[i].content /= <<>>
                ELSE ms[i].role \in {"assistant", "error"}
           /\ (ui.flight = <<>> /\ ms /= <<>>) =>
                LET m == ms[Len(ms)]
                    h == ui.last
                IN IF h.net /\ h.ok /\ h.json.valid
                     THEN m = [role |-> "assistant", content |-> h.json.answer]
                     ELSE /\ m.role = "error"
                          /\ m.content \in {"Failed to fetch", "SyntaxError",
                                             "Chat failed", "detail"}
                          /\ (h.net /\ h.json.valid /\ h.json.detail /= None)
                               => m.content = h.json.detail)

\* Two sends have settled, one with an answer and one with the detail of a
\* non-ok response.
C25_Witness ==
  /\ Len(ui.st.messages) = 4
  /\ ui.st.messages[2].role = "assistant"
  /\ ui.st.messages[4] = [role |-> "error", content |-> "detail"]

\* ---------------------------------------------------------------------
\* C26: a FileUpload keeps loading true exactly while its upload is in
\* flight.  A change with no file starts nothing and leaves loading and
\* status alone; a change with a file sets loading and clears status; when
\* the upload settles loading is false, the file input is empty, and status
\* is ok for an upload that succeeded and not ok, with the error's message,
\* for one that failed.  The rendered input is enabled again afterwards.
C26_UploadLoading ==
  /\ [](\A u \in Uploaders :
          LET box == upload.box[u]
          IN /\ box.loading <=> box.flight /= NoUpload
             /\ box.loading => box.status = NoStatus /\ box.value \in Files
             /\ (~box.loading /\ box.done > 0) =>
                  /\ box.value = NoFile
                  /\ box.status /= NoStatus
                  /\ box.status.ok <=> ~box.outcome.threw
                  /\ box.outcome.threw => box.status.msg = <<box.outcome.message>>
             /\ (~box.loading /\ box.done = 0) => box.status = NoStatus)
  /\ [][\A u \in Uploaders :
          LET old == upload.box[u]
              new == upload'.box[u]
          IN /\ (new.flight = old.flight) =>
                  new.loading = old.loading /\ new.status = old.status
             /\ (old.flight = NoUpload /\ new.flight /= NoUpload) =>
                  new.loading /\ new.status = NoStatus
             /\ (old.flight /= NoUpload /\ new.flight = NoUpload) =>
                  ~new.loading /\ new.value = NoFile /\ new.done = old.done + 1]_vars
  /\ \A u \in Uploaders :
       upload.box[u].shown.loading ~> ~upload.box[u].shown.loading

\* The resume uploader has settled twice: the second upload cleared the
\* status of the first and failed with the response's detail.
C26_Witness ==
  /\ upload.box["resume"].done = 2
  /\ ~upload.box["resume"].loading
  /\ upload.box["resume"].value = NoFile
  /\ upload.box["resume"].status = [ok |-> FALSE, msg |-> <<"detail">>]

====
